---- MODULE Spec2Model ----
(***************************************************************************)
(* Model of app/server.py: an HTTP message log kept in one SQLite table.   *)
(* The state is the messages table, the store's clock (CURRENT_TIMESTAMP,  *)
(* one-second resolution), and the last request with its response.  Each   *)
(* handler of MessageHandler is one action; HTTPServer handles one request *)
(* at a time, so a handler runs from its first statement to its response.  *)
(***************************************************************************)
EXTENDS Integers, Sequences, FiniteSets, TLC

VARIABLES
    messages,     \* the rows of table messages: [id, content, type, timestamp]
    clock,        \* the store's CURRENT_TIMESTAMP, in whole seconds
    request,      \* the request handled last
    response,     \* the response written for it
    limit,        \* the limit the last request bound to its query, 0 if not a list
    assigned,     \* history: the ids returned by successful creates so far
    deletedIds,   \* history: the ids for which a delete-one answered 200
    routed,       \* the method and path of the request line dispatched last
    handlers      \* the handler runs in progress, statement by statement

vars == <<messages, clock, request, response, limit, assigned, deletedIds,
          routed, handlers>>

----------------------------------------------------------------------------
(* Bounds of the model *)

MaxRows == 2          \* creates are attempted while the table has fewer rows
MaxId == 3            \* ... and while the next id is at most this
MaxClock == 1         \* the clock ticks up to this second
MaxBlankLen == 1      \* length of the whitespace-only contents submitted
MaxLimitLen == 3      \* length of the limit query values submitted

----------------------------------------------------------------------------
(* Strings are sequences of one-character strings *)

Strings(alphabet, maxLen) == UNION {[1..n -> alphabet] : n \in 0..maxLen}

Whitespace == {" ", "\t", "\n"}

RECURSIVE lstrip(_)
lstrip(s) ==
    IF s = <<>> THEN s
    ELSE IF Head(s) \in Whitespace THEN lstrip(Tail(s)) ELSE s

RECURSIVE rstrip(_)
rstrip(s) ==
    IF s = <<>> THEN s
    ELSE IF s[Len(s)] \in Whitespace THEN rstrip(SubSeq(s, 1, Len(s) - 1)) ELSE s

\* content tested without strip()
strip_omitted(s) == s

\* str.strip()
strip(s) == rstrip(lstrip(s))

Digits == {"0", "1", "2", "3", "4", "5", "6", "7", "8", "9"}

DigitValue(c) ==
    CASE c = "0" -> 0 [] c = "1" -> 1 [] c = "2" -> 2 [] c = "3" -> 3
      [] c = "4" -> 4 [] c = "5" -> 5 [] c = "6" -> 6 [] c = "7" -> 7
      [] c = "8" -> 8 [] c = "9" -> 9

Digit(n) == CHOOSE c \in Digits : DigitValue(c) = n

\* the decimal numeral of n >= 0, as a client writes it
RECURSIVE Numeral(_)
Numeral(n) == IF n < 10 THEN <<Digit(n)>> ELSE Append(Numeral(n \div 10), Digit(n % 10))

\* the digits of an int() literal: digits, with single underscores allowed
\* between two digits only
WellFormedDigits(d) ==
    /\ d # <<>>
    /\ \A i \in 1..Len(d) : d[i] \in Digits \cup {"_"}
    /\ d[1] # "_"
    /\ d[Len(d)] # "_"
    /\ \A i \in 1..(Len(d) - 1) : ~(d[i] = "_" /\ d[i + 1] = "_")

RECURSIVE DecimalValue(_, _)
DecimalValue(d, acc) ==
    IF d = <<>> THEN acc
    ELSE IF Head(d) = "_" THEN DecimalValue(Tail(d), acc)
    ELSE DecimalValue(Tail(d), 10 * acc + DigitValue(Head(d)))

\* int(s) of a str: surrounding whitespace is dropped, one optional sign,
\* then the digits; ok = FALSE stands for ValueError
int(s) ==
    LET t == strip(s)
        signed == t # <<>> /\ t[1] \in {"+", "-"}
        d == IF signed THEN Tail(t) ELSE t
    IN IF WellFormedDigits(d)
       THEN [ok |-> TRUE,
             value |-> IF signed /\ t[1] = "-"
                       THEN 0 - DecimalValue(d, 0)
                       ELSE DecimalValue(d, 0)]
       ELSE [ok |-> FALSE, value |-> 0]

----------------------------------------------------------------------------
(* Requests *)

VALID_TYPES == {"insight", "decision", "observation"}

DefaultLimit == 200

\* The limit query parameter after parse_qs: absent (parse_qs also drops a
\* blank value), or the non-empty first value
LimitChars == {"0", "1", "2", "-", "+", " ", "_", "a"}
NoLimit == [present |-> FALSE, value |-> <<>>]
LimitParams ==
    {NoLimit} \cup
    {[present |-> TRUE, value |-> v] : v \in Strings(LimitChars, MaxLimitLen) \ {<<>>}}

\* the limit values submitted while the table changes
FewLimitParams ==
    {NoLimit} \cup
    {[present |-> TRUE, value |-> v] :
        v \in {<<"1">>, <<"2">>, <<"0">>, <<"-", "1">>, <<"a">>}}

\* JSON values of the content key.  A non-string value is told apart by its
\* kind and by its truth value in Python.
BlankStrings == Strings({" ", "\t"}, MaxBlankLen)
TextStrings == {<<"a">>, <<" ", "a", " ">>}
ContentValues ==
    {[kind |-> "string", s |-> v, truthy |-> v # <<>>] :
        v \in BlankStrings \cup TextStrings} \cup
    {[kind |-> "null", s |-> <<>>, truthy |-> FALSE],
     [kind |-> "number", s |-> <<>>, truthy |-> TRUE]}
NoContent == [kind |-> "absent", s |-> <<>>, truthy |-> FALSE]

\* JSON values of the type key
TypeValues ==
    {[kind |-> "string", s |-> v] : v \in {"insight", "decision", "bogus"}} \cup
    {[kind |-> k, s |-> ""] : k \in {"number", "null", "list", "object"}}
NoType == [kind |-> "absent", s |-> ""]

\* The body of a POST: no body (Content-Length absent or 0), bytes that are
\* not UTF-8, text that is not JSON, or a JSON value.  For a JSON string or
\* list, hasContent and hasType say whether "content" in data and "type" in
\* data hold; for an object they say whether the keys are present.
NoBody == [kind |-> "empty", hasContent |-> FALSE, hasType |-> FALSE,
           content |-> NoContent, type |-> NoType]
Bodies ==
    {[kind |-> k, hasContent |-> FALSE, hasType |-> FALSE,
      content |-> NoContent, type |-> NoType] :
        k \in {"empty", "undecodable", "badjson", "scalar"}} \cup
    {[kind |-> k, hasContent |-> c, hasType |-> t,
      content |-> NoContent, type |-> NoType] :
        k \in {"string", "list"}, c \in BOOLEAN, t \in BOOLEAN} \cup
    {[kind |-> "object", hasContent |-> c # NoContent, hasType |-> t # NoType,
      content |-> c, type |-> t] :
        c \in ContentValues \cup {NoContent}, t \in TypeValues \cup {NoType}}

\* the bodies submitted while the table changes: the accepted ones and one
\* body for each way of being turned down
FewBodies ==
    {b \in Bodies :
        \/ b.kind \in {"empty", "badjson"}
        \/ /\ b.kind = "object"
           /\ b.content \in {NoContent} \cup
                {[kind |-> "string", s |-> v, truthy |-> TRUE] : v \in TextStrings}
           /\ b.type.s \in {"insight", "decision"}
        \/ /\ b.kind = "object"
           /\ b.content = [kind |-> "string", s |-> <<"a">>, truthy |-> TRUE]
           /\ b.type.kind \in {"absent", "list"} \/ b.type.s = "bogus"
        \/ /\ b.kind = "object"
           /\ b.content = [kind |-> "string", s |-> <<" ">>, truthy |-> TRUE]
           /\ b.type.s = "insight"}

\* The ids of DELETE /messages/<digits>.  The pattern admits every digit
\* string; TooLargeId stands for the ids of 2^63 and more, which sqlite3
\* cannot bind as an INTEGER.
MaxPathId == MaxId + 1
TooLargeId == MaxPathId + 1
PathIds == 0..TooLargeId
BindsAsInteger(n) == n # TooLargeId

\* Request lines.  A path is a prefix and the characters after it; Paths has
\* the routes and paths next to them.
Methods == {"GET", "POST", "DELETE", "OPTIONS", "HEAD", "PUT"}
IdTails ==
    {Numeral(n) : n \in PathIds} \cup
    {<<>>, <<"0", "1">>, <<"a">>, <<"-", "1">>}
Paths ==
    {[prefix |-> p, tail |-> <<>>] : p \in {"/messages", "/", "/other"}} \cup
    {[prefix |-> "/static/", tail |-> <<"a">>]} \cup
    {[prefix |-> "/messages", tail |-> <<"/">> \o t] : t \in IdTails}

\* the paths requested with the methods that take no id
FewPaths ==
    {path \in Paths : path.tail \in {<<>>, <<"a">>, <<"/", "1">>}}
NoPath == [prefix |-> "", tail |-> <<>>]

\* re.match(r"^/messages/(\d+)$", path)
match(path) ==
    /\ path.prefix = "/messages"
    /\ Len(path.tail) >= 2
    /\ path.tail[1] = "/"
    /\ \A i \in 2..Len(path.tail) : path.tail[i] \in Digits

Request(op, param, body, id) == [op |-> op, limit |-> param, body |-> body, id |-> id]

----------------------------------------------------------------------------
(* Responses *)

NoMessage == [id |-> 0, content |-> <<>>, type |-> "", timestamp |-> 0]

NoResponse ==
    [status |-> 0, kind |-> "none", error |-> "", messages |-> <<>>,
     message |-> NoMessage, id |-> 0, count |-> 0]

\* send_json_response(data, status)
send_json_response(kind, status) == [NoResponse EXCEPT !.kind = kind, !.status = status]

\* send_error_response(message, status): {"error": message}
send_error_response(message, status) ==
    [NoResponse EXCEPT !.kind = "error", !.status = status, !.error = message]

\* an exception leaves the handler: socketserver drops the connection and
\* nothing is written
Unhandled(exception) == [NoResponse EXCEPT !.kind = "unhandled", !.error = exception]

----------------------------------------------------------------------------
(* The store *)

Ids == {m.id : m \in messages}

Max(S) == CHOOSE x \in S : \A y \in S : y <= x

Min2(a, b) == IF a < b THEN a ELSE b

\* the smallest rowid not in the table
lastrowid_first_free ==
    CHOOSE i \in 1..(Cardinality(messages) + 1) :
        i \notin Ids /\ \A j \in 1..(i - 1) : j \in Ids

\* id INTEGER PRIMARY KEY: the rowid of a new row is one more than the
\* largest rowid in the table, 1 in an empty table
lastrowid == IF messages = {} THEN 1 ELSE Max(Ids) + 1

\* ORDER BY timestamp DESC: every arrangement of the rows with timestamps
\* descending; the order of rows with equal timestamps is left to the store
Orderings ==
    LET n == Cardinality(messages)
    IN {p \in [1..n -> messages] :
          /\ \A i, j \in 1..n : i # j => p[i] # p[j]
          /\ \A i, j \in 1..n : i < j => p[i].timestamp >= p[j].timestamp}

\* ... LIMIT ?
fetchall(n) ==
    {SubSeq(p, 1, Min2(n, Cardinality(messages))) : p \in Orderings}

----------------------------------------------------------------------------
(* Handler runs, statement by statement *)

NumSlots == 2         \* connections open at a time
Slots == 1..NumSlots

\* A run: where it stands, its request, the locals count / message_id, the
\* rows its DELETE removed, the table when it began, and its response
IdleHandler ==
    [pc |-> "idle", req |-> Request("none", NoLimit, NoBody, 0), count |-> 0,
     message_id |-> 0, removed |-> 0, before |-> {}, resp |-> NoResponse]

----------------------------------------------------------------------------
Init ==
    /\ messages = {}
    /\ clock = 0
    /\ request = Request("none", NoLimit, NoBody, 0)
    /\ response = NoResponse
    /\ limit = 0
    /\ assigned = {}
    /\ deletedIds = {}
    /\ routed = [method |-> "", path |-> NoPath]
    /\ handlers = [s \in Slots |-> IdleHandler]

\* time passes at the store
Tick ==
    /\ clock < MaxClock
    /\ clock' = clock + 1
    /\ UNCHANGED <<messages, request, response, limit, assigned, deletedIds,
                   routed, handlers>>

\* limit < 0 tested in place of limit < 1
EffectiveLimit_zero_kept(param) ==
    IF ~param.present THEN DefaultLimit
    ELSE LET parsed == int(param.value)
         IN IF ~parsed.ok THEN DefaultLimit
            ELSE IF parsed.value < 0 THEN DefaultLimit
            ELSE parsed.value

\* the limit computed by handle_get_messages
EffectiveLimit(param) ==
    IF ~param.present THEN DefaultLimit
    ELSE LET parsed == int(param.value)
         IN IF ~parsed.ok THEN DefaultLimit
            ELSE IF parsed.value < 1 THEN DefaultLimit
            ELSE parsed.value

\* GET /messages, the limit parameter drawn from params
get_messages(params) ==
    \E param \in params :
      \E rows \in fetchall(EffectiveLimit(param)) :
        /\ request' = Request("list", param, NoBody, 0)
        /\ limit' = EffectiveLimit(param)
        /\ response' = [send_json_response("messages", 200) EXCEPT !.messages = rows]
        /\ UNCHANGED <<messages, clock, assigned, deletedIds>>

handle_get_messages ==
    /\ get_messages(FewLimitParams)
    /\ UNCHANGED <<routed, handlers>>

\* The checks of handle_create_message that end the request before the
\* insert, in the order of the code; NoResponse when the body passes them all.
\* An exception other than JSONDecodeError is answered by the last except
\* clause with status 500.
create_rejection(body) ==
    IF body.kind = "empty"
      THEN send_error_response("Request body is required", 400)
    ELSE IF body.kind = "undecodable"
      THEN send_error_response("Internal server error: UnicodeDecodeError", 500)
    ELSE IF body.kind = "badjson"
      THEN send_error_response("Invalid JSON in request body", 400)
    ELSE IF body.kind = "scalar"
      \* "content" in data, data not iterable
      THEN send_error_response("Internal server error: TypeError", 500)
    ELSE IF ~body.hasContent
      THEN send_error_response("'content' field is required", 400)
    ELSE IF ~body.hasType
      THEN send_error_response("'type' field is required", 400)
    ELSE IF body.kind \in {"string", "list"}
      \* data["type"], data indexed by integers only
      THEN send_error_response("Internal server error: TypeError", 500)
    ELSE IF body.type.kind \in {"list", "object"}
      \* message_type not in VALID_TYPES, message_type unhashable
      THEN send_error_response("Internal server error: TypeError", 500)
    ELSE IF ~(body.type.kind = "string" /\ body.type.s \in VALID_TYPES)
      THEN send_error_response("'type' must be one of: VALID_TYPES", 400)
    ELSE IF ~body.content.truthy
      THEN send_error_response("'content' cannot be empty", 400)
    ELSE IF body.content.kind # "string"
      \* content.strip(), content not a str
      THEN send_error_response("Internal server error: AttributeError", 500)
    ELSE IF strip(body.content.s) = <<>>
      THEN send_error_response("'content' cannot be empty", 400)
    ELSE NoResponse

\* the content trimmed before it is stored
new_row_stripped(body) ==
    [id |-> lastrowid, content |-> strip(body.content.s),
     type |-> body.type.s, timestamp |-> clock]

\* INSERT INTO messages (content, type) VALUES (?, ?): the store adds the id
\* and the timestamp
new_row(body) ==
    [id |-> lastrowid, content |-> body.content.s,
     type |-> body.type.s, timestamp |-> clock]

\* POST /messages, the body drawn from bodies
create_message(bodies) ==
    \E body \in bodies :
      LET rejection == create_rejection(body)
          row == new_row(body)
      IN /\ request' = Request("create", NoLimit, body, 0)
         /\ limit' = 0
         /\ IF rejection # NoResponse
            THEN /\ response' = rejection
                 /\ UNCHANGED <<messages, assigned>>
            ELSE /\ Cardinality(messages) < MaxRows
                 /\ lastrowid <= MaxId
                 /\ messages' = messages \cup {row}
                 /\ response' = [send_json_response("created", 201) EXCEPT !.message = row]
                 /\ assigned' = assigned \cup {row.id}
         /\ UNCHANGED <<clock, deletedIds>>

handle_create_message ==
    /\ create_message(FewBodies)
    /\ UNCHANGED <<routed, handlers>>

\* the row kept and its content blanked instead of the row deleted
delete_message_soft(message_id) ==
    /\ request' = Request("delete", NoLimit, NoBody, message_id)
    /\ limit' = 0
    /\ IF ~BindsAsInteger(message_id)
       THEN /\ response' = Unhandled("OverflowError")
            /\ UNCHANGED <<messages, deletedIds>>
       ELSE IF message_id \notin Ids
       THEN /\ response' = send_error_response("Message not found", 404)
            /\ UNCHANGED <<messages, deletedIds>>
       ELSE /\ messages' = {IF m.id = message_id THEN [m EXCEPT !.content = <<>>] ELSE m :
                               m \in messages}
            /\ response' = [send_json_response("deleted", 200) EXCEPT !.id = message_id]
            /\ deletedIds' = deletedIds \cup {message_id}
    /\ UNCHANGED <<clock, assigned>>

\* DELETE /messages/<message_id>
delete_message(message_id) ==
    /\ request' = Request("delete", NoLimit, NoBody, message_id)
    /\ limit' = 0
    /\ IF ~BindsAsInteger(message_id)
       THEN \* the SELECT raises OverflowError; the handler has no except clause
            /\ response' = Unhandled("OverflowError")
            /\ UNCHANGED <<messages, deletedIds>>
       ELSE IF message_id \notin Ids
       THEN /\ response' = send_error_response("Message not found", 404)
            /\ UNCHANGED <<messages, deletedIds>>
       ELSE /\ messages' = {m \in messages : m.id # message_id}
            /\ response' = [send_json_response("deleted", 200) EXCEPT !.id = message_id]
            /\ deletedIds' = deletedIds \cup {message_id}
    /\ UNCHANGED <<clock, assigned>>

handle_delete_message ==
    /\ \E message_id \in PathIds : delete_message(message_id)
    /\ UNCHANGED <<routed, handlers>>

\* the rows counted after the DELETE
clear_messages_count_late ==
    /\ request' = Request("clear", NoLimit, NoBody, 0)
    /\ limit' = 0
    /\ messages' = {}
    /\ response' = [send_json_response("cleared", 200)
                      EXCEPT !.count = Cardinality(messages')]
    /\ UNCHANGED <<clock, assigned, deletedIds>>

\* DELETE /messages
clear_messages ==
    LET count == Cardinality(messages)
    IN /\ request' = Request("clear", NoLimit, NoBody, 0)
       /\ limit' = 0
       /\ messages' = {}
       /\ response' = [send_json_response("cleared", 200) EXCEPT !.count = count]
       /\ UNCHANGED <<clock, assigned, deletedIds>>

handle_clear_messages ==
    /\ clear_messages
    /\ UNCHANGED <<routed, handlers>>

Next ==
    \/ Tick
    \/ handle_get_messages
    \/ handle_create_message
    \/ handle_delete_message
    \/ handle_clear_messages

Spec == Init /\ [][Next]_vars

\* The limit parameter alone: every list request over the full set of limit
\* values
NextLimit ==
    /\ get_messages(LimitParams)
    /\ UNCHANGED <<routed, handlers>>

SpecLimit == Init /\ [][NextLimit]_vars

\* The checks of a create: every body, over the tables that creates build
NextCreate ==
    \/ Tick
    \/ /\ create_message(Bodies)
       /\ UNCHANGED <<routed, handlers>>

SpecCreate == Init /\ [][NextCreate]_vars

----------------------------------------------------------------------------
(* Dispatch by method and path *)

\* self.send_error_response("Not found", 404)
not_found ==
    /\ request' = Request("unrouted", NoLimit, NoBody, 0)
    /\ limit' = 0
    /\ response' = send_error_response("Not found", 404)
    /\ UNCHANGED <<messages, clock, assigned, deletedIds>>

\* SimpleHTTPRequestHandler serves a file of STATIC_DIR, or its own HTML
\* error page when there is none
static_file ==
    /\ request' = Request("static", NoLimit, NoBody, 0)
    /\ limit' = 0
    /\ \E status \in {200, 404} :
         response' = [NoResponse EXCEPT !.kind = "file", !.status = status]
    /\ UNCHANGED <<messages, clock, assigned, deletedIds>>

do_GET ==
    \E path \in FewPaths :
      /\ routed' = [method |-> "GET", path |-> path]
      /\ IF path.prefix = "/messages" /\ path.tail = <<>>
         THEN get_messages(FewLimitParams)
         ELSE IF path.prefix = "/static/" \/ (path.prefix = "/" /\ path.tail = <<>>)
         THEN static_file
         ELSE not_found
      /\ UNCHANGED handlers

do_POST ==
    \E path \in FewPaths :
      /\ routed' = [method |-> "POST", path |-> path]
      /\ IF path.prefix = "/messages" /\ path.tail = <<>>
         THEN create_message(FewBodies)
         ELSE not_found
      /\ UNCHANGED handlers

do_DELETE ==
    \E path \in Paths :
      /\ routed' = [method |-> "DELETE", path |-> path]
      /\ IF match(path)
         THEN delete_message(int(Tail(path.tail)).value)
         ELSE IF path.prefix = "/messages" /\ path.tail = <<>>
         THEN clear_messages
         ELSE not_found
      /\ UNCHANGED handlers

\* status 200, the CORS headers, no body
do_OPTIONS ==
    \E path \in FewPaths :
      /\ routed' = [method |-> "OPTIONS", path |-> path]
      /\ request' = Request("options", NoLimit, NoBody, 0)
      /\ limit' = 0
      /\ response' = [NoResponse EXCEPT !.kind = "empty", !.status = 200]
      /\ UNCHANGED <<messages, clock, assigned, deletedIds, handlers>>

\* do_HEAD is inherited from SimpleHTTPRequestHandler: the headers of a file
\* of STATIC_DIR, or its error, for every path
do_HEAD ==
    \E path \in FewPaths :
      /\ routed' = [method |-> "HEAD", path |-> path]
      /\ static_file
      /\ UNCHANGED handlers

\* a method without a do_ method: BaseHTTPRequestHandler answers
\* send_error(501, "Unsupported method") with its HTML error page
unsupported_method ==
    \E method \in Methods \ {"GET", "POST", "DELETE", "OPTIONS", "HEAD"}, path \in FewPaths :
      /\ routed' = [method |-> method, path |-> path]
      /\ request' = Request("unsupported", NoLimit, NoBody, 0)
      /\ limit' = 0
      /\ response' = [NoResponse EXCEPT !.kind = "html", !.status = 501]
      /\ UNCHANGED <<messages, clock, assigned, deletedIds, handlers>>

NextRoute ==
    \/ Tick
    \/ do_GET
    \/ do_POST
    \/ do_DELETE
    \/ do_OPTIONS
    \/ do_HEAD
    \/ unsupported_method

SpecRoute == Init /\ [][NextRoute]_vars

----------------------------------------------------------------------------
(* The handlers statement by statement.  Every run has its own connection    *)
(* (get_db_connection); a statement, with the commit that follows it, is one *)
(* step at the store.                                                        *)

\* the requests of the runs
StepBodies ==
    {b \in FewBodies :
        /\ b.content = [kind |-> "string", s |-> <<"a">>, truthy |-> TRUE]
        /\ b.type.s \in {"insight", "bogus"}}
StepRequests ==
    {Request("create", NoLimit, b, 0) : b \in StepBodies} \cup
    {Request("delete", NoLimit, NoBody, id) : id \in 1..MaxId} \cup
    {Request("clear", NoLimit, NoBody, 0)}

\* how a statement ends at the store: it runs, or sqlite3 raises an error
\* (database is locked, disk I/O error)
Ok == {"ok"}
OkOrError == {"ok", "error"}

Running(h) == h.pc \notin {"idle", "pending", "done"}

Done(h, resp) == [h EXCEPT !.pc = "done", !.resp = resp]

stepvars == <<clock, request, response, limit, assigned, deletedIds, routed>>

\* a client connects and sends its request; it waits in the listen queue
connect(s) ==
    /\ handlers[s].pc = "idle"
    /\ \E req \in StepRequests :
         handlers' = [handlers EXCEPT ![s] = [IdleHandler EXCEPT !.pc = "pending", !.req = req]]
    /\ UNCHANGED <<messages, stepvars>>

\* the request is dispatched to its handler
process_request(s) ==
    /\ handlers[s].pc = "pending"
    /\ handlers' = [handlers EXCEPT ![s] =
         [handlers[s] EXCEPT !.before = messages,
                             !.pc = CASE handlers[s].req.op = "create" -> "validate"
                                      [] handlers[s].req.op = "delete" -> "select"
                                      [] handlers[s].req.op = "clear" -> "count"]]
    /\ UNCHANGED <<messages, stepvars>>

\* a threading server: a request is taken up whatever the others do
ServerIdle_threading == TRUE

\* HTTPServer.serve_forever takes up the next request when the handler of the
\* one before has returned
ServerIdle == \A s \in Slots : ~Running(handlers[s])

accept(s) ==
    /\ ServerIdle
    /\ process_request(s)

\* handle_create_message up to the insert
create_validate(s) ==
    LET h == handlers[s]
        rejection == create_rejection(h.req.body)
    IN /\ h.pc = "validate"
       /\ handlers' = [handlers EXCEPT ![s] =
            IF rejection # NoResponse THEN Done(h, rejection)
            ELSE [h EXCEPT !.pc = "insert"]]
       /\ UNCHANGED <<messages, stepvars>>

\* INSERT ... and conn.commit()
create_insert(s, outcomes) ==
    LET h == handlers[s]
        row == new_row(h.req.body)
    IN /\ h.pc = "insert"
       /\ \E outcome \in outcomes :
            IF outcome = "ok"
            THEN /\ Cardinality(messages) < MaxRows
                 /\ lastrowid <= MaxId
                 /\ messages' = messages \cup {row}
                 /\ handlers' = [handlers EXCEPT ![s] =
                      [h EXCEPT !.pc = "reread", !.message_id = row.id]]
            ELSE /\ messages' = messages
                 /\ handlers' = [handlers EXCEPT ![s] = Done(h,
                      send_error_response("Internal server error: OperationalError", 500))]
       /\ UNCHANGED stepvars

\* SELECT ... WHERE id = ? with cursor.lastrowid, row_to_dict(fetchone()) and
\* the 201 response
create_reread(s, outcomes) ==
    LET h == handlers[s]
        found == {m \in messages : m.id = h.message_id}
    IN /\ h.pc = "reread"
       /\ \E outcome \in outcomes :
            handlers' = [handlers EXCEPT ![s] =
              IF outcome = "error"
              THEN Done(h, send_error_response("Internal server error: OperationalError", 500))
              ELSE IF found = {}
              \* dict(None)
              THEN Done(h, send_error_response("Internal server error: TypeError", 500))
              ELSE Done(h, [send_json_response("created", 201)
                              EXCEPT !.message = CHOOSE m \in found : TRUE])]
       /\ UNCHANGED <<messages, stepvars>>

\* SELECT id FROM messages WHERE id = ?
delete_select(s, outcomes) ==
    LET h == handlers[s]
    IN /\ h.pc = "select"
       /\ \E outcome \in outcomes :
            handlers' = [handlers EXCEPT ![s] =
              IF outcome = "error" THEN Done(h, Unhandled("OperationalError"))
              ELSE IF h.req.id \notin Ids
              THEN Done(h, send_error_response("Message not found", 404))
              ELSE [h EXCEPT !.pc = "delete"]]
       /\ UNCHANGED <<messages, stepvars>>

\* DELETE FROM messages WHERE id = ?, conn.commit() and the 200 response
delete_delete(s, outcomes) ==
    LET h == handlers[s]
        gone == {m \in messages : m.id = h.req.id}
    IN /\ h.pc = "delete"
       /\ \E outcome \in outcomes :
            IF outcome = "error"
            THEN /\ messages' = messages
                 /\ handlers' = [handlers EXCEPT ![s] = Done(h, Unhandled("OperationalError"))]
            ELSE /\ messages' = messages \ gone
                 /\ handlers' = [handlers EXCEPT ![s] =
                      Done([h EXCEPT !.removed = Cardinality(gone)],
                           [send_json_response("deleted", 200) EXCEPT !.id = h.req.id])]
       /\ UNCHANGED stepvars

\* SELECT COUNT(*) as count FROM messages
clear_count(s, outcomes) ==
    LET h == handlers[s]
    IN /\ h.pc = "count"
       /\ \E outcome \in outcomes :
            handlers' = [handlers EXCEPT ![s] =
              IF outcome = "error" THEN Done(h, Unhandled("OperationalError"))
              ELSE [h EXCEPT !.pc = "delete_all", !.count = Cardinality(messages)]]
       /\ UNCHANGED <<messages, stepvars>>

\* DELETE FROM messages, conn.commit() and the 200 response
clear_delete(s, outcomes) ==
    LET h == handlers[s]
    IN /\ h.pc = "delete_all"
       /\ \E outcome \in outcomes :
            IF outcome = "error"
            THEN /\ messages' = messages
                 /\ handlers' = [handlers EXCEPT ![s] = Done(h, Unhandled("OperationalError"))]
            ELSE /\ messages' = {}
                 /\ handlers' = [handlers EXCEPT ![s] =
                      Done([h EXCEPT !.removed = Cardinality(messages)],
                           [send_json_response("cleared", 200) EXCEPT !.count = h.count])]
       /\ UNCHANGED stepvars

\* the connection of an answered request is closed
close(s) ==
    /\ handlers[s].pc = "done"
    /\ handlers' = [handlers EXCEPT ![s] = IdleHandler]
    /\ UNCHANGED <<messages, stepvars>>

\* One server process: requests queue up, the store may fail a statement
NextServer ==
    \E s \in Slots :
      \/ connect(s)
      \/ accept(s)
      \/ create_validate(s)
      \/ create_insert(s, OkOrError)
      \/ create_reread(s, OkOrError)
      \/ delete_select(s, OkOrError)
      \/ delete_delete(s, OkOrError)
      \/ clear_count(s, OkOrError)
      \/ clear_delete(s, OkOrError)
      \/ close(s)

SpecServer == Init /\ [][NextServer]_vars

\* Runs that overlap on one database file, each on its own connection: the
\* store orders their statements, nothing orders the runs
NextStore ==
    \E s \in Slots :
      \/ connect(s)
      \/ process_request(s)
      \/ create_validate(s)
      \/ create_insert(s, Ok)
      \/ create_reread(s, Ok)
      \/ delete_select(s, Ok)
      \/ delete_delete(s, Ok)
      \/ clear_count(s, Ok)
      \/ clear_delete(s, Ok)
      \/ close(s)

SpecStore == Init /\ [][NextStore]_vars

----------------------------------------------------------------------------
TypeOK ==
    /\ \A m \in messages : m.id \in 1..MaxId /\ m.timestamp \in 0..clock
    /\ Cardinality(messages) <= MaxRows
    /\ clock \in 0..MaxClock
    /\ assigned \subseteq 1..MaxId
    /\ deletedIds \subseteq 1..MaxId

----------------------------------------------------------------------------
(* Properties *)

\* C1: every id assigned by a successful create is strictly greater than every
\* id assigned by an earlier create, so no id is assigned twice, also after
\* deletes and clears.
C1_IdsStrictlyIncreasing ==
    [][(request'.op = "create" /\ response'.kind = "created" /\ messages' # messages)
         => \A i \in assigned : response'.message.id > i]_vars

\* C2: a list issued right after a successful create (no request in between)
\* returns a message with the id and timestamp of the create response and the
\* content and type submitted.
C2_ListAfterCreateIncludesIt ==
    [][(response.kind = "created" /\ request'.op = "list" /\ clock' = clock)
         => \E i \in 1..Len(response'.messages) :
              /\ response'.messages[i].id = response.message.id
              /\ response'.messages[i].timestamp = response.message.timestamp
              /\ response'.messages[i].content = request.body.content.s
              /\ response'.messages[i].type = request.body.type.s]_vars

\* newest first, the larger id first among equal timestamps
Precedes(a, b) ==
    \/ a.timestamp > b.timestamp
    \/ a.timestamp = b.timestamp /\ a.id > b.id

\* C3: list(limit) returns exactly min(limit, number of rows) messages, by
\* timestamp descending and by id descending among equal timestamps, and they
\* are the first rows of the whole table in that order.
C3_ListOrderedAndLimited ==
    request.op = "list" =>
        LET r == response.messages
            n == Len(r)
        IN /\ n = Min2(limit, Cardinality(messages))
           /\ \A i \in 1..n : r[i] \in messages
           /\ \A i, j \in 1..n : i < j => Precedes(r[i], r[j])
           /\ \A m \in messages :
                (\A i \in 1..n : r[i] # m) => \A i \in 1..n : Precedes(r[i], m)

\* C4: after a successful create, a list with limit=1 and no request in
\* between returns exactly the created message, also when an older row has the
\* same timestamp.
C4_CreateThenListOne ==
    [][(response.kind = "created" /\ request'.op = "list" /\ clock' = clock
          /\ limit' = 1)
         => response'.messages = <<response.message>>]_vars

\* C5: deleting an existing id removes exactly that row, leaves the others
\* and answers 200 {"deleted": id}; every later list excludes the deleted
\* message; a later delete of the same id answers 404, never 200 again.
C5_DeleteOnceOnly ==
    [][/\ (request'.op = "delete" /\ clock' = clock /\ request'.id \in Ids)
            => /\ messages' = {m \in messages : m.id # request'.id}
               /\ response' = [send_json_response("deleted", 200)
                                 EXCEPT !.id = request'.id]
       /\ (request'.op = "delete" /\ clock' = clock /\ request'.id \in deletedIds)
            => response'.status = 404
       /\ (request'.op = "list" /\ clock' = clock)
            => \A i \in 1..Len(response'.messages) :
                 response'.messages[i].id \notin deletedIds]_vars

\* C6: deleting an id that is not in the store, in any state, answers 404
\* {"error": "Message not found"} and leaves the store unchanged.
C6_DeleteMissingIs404 ==
    [][(request'.op = "delete" /\ clock' = clock /\ request'.id \notin Ids)
         => /\ response' = send_error_response("Message not found", 404)
            /\ messages' = messages]_vars

\* C7: clear on a table of N rows answers 200 with deleted_count = N, and a
\* list issued right afterwards returns no messages.
C7_ClearCountsAndEmpties ==
    [][/\ (request'.op = "clear" /\ clock' = clock)
            => /\ response'.status = 200
               /\ response'.kind = "cleared"
               /\ response'.count = Cardinality(messages)
       /\ (request.op = "clear" /\ request'.op = "list" /\ clock' = clock)
            => /\ response'.status = 200
               /\ response'.messages = <<>>]_vars

C7_Witness ==
    /\ request.op = "clear"
    /\ response.count >= 2
    /\ messages = {}

Pow10(k) == IF k = 0 THEN 1 ELSE IF k = 1 THEN 10 ELSE IF k = 2 THEN 100
            ELSE IF k = 3 THEN 1000 ELSE 10000

\* C8: the effective limit is 200 when the limit parameter is absent, zero,
\* negative or non-numeric, and the requested integer when that is >= 1,
\* however large.
C8_EffectiveLimit ==
    request.op = "list" =>
        LET v == request.limit.value
            numbers == 0..(Pow10(MaxLimitLen) - 1)
        IN /\ ~request.limit.present => limit = 200
           /\ \A n \in numbers :
                /\ (v = Numeral(n) /\ n >= 1) => limit = n
                /\ (v = Numeral(n) /\ n = 0) => limit = 200
                /\ v = <<"-">> \o Numeral(n) => limit = 200
           /\ (\E i \in 1..Len(v) : v[i] \notin Digits \cup {"-", "+", " ", "_"})
                => limit = 200

C8_Witness ==
    /\ request.op = "list"
    /\ request.limit.value = <<"2", "1">>
    /\ limit = 21

\* C9: a create whose body has a content key and a type key with a type value
\* outside VALID_TYPES, whatever JSON value it is, fails with status 400 and an
\* error naming the valid set, and stores no row.
C9_InvalidTypeIs400 ==
    [][(/\ request'.op = "create" /\ clock' = clock
        /\ request'.body.kind = "object"
        /\ request'.body.hasContent /\ request'.body.hasType
        /\ ~(request'.body.type.kind = "string" /\ request'.body.type.s \in VALID_TYPES))
         => /\ response' = send_error_response("'type' must be one of: VALID_TYPES", 400)
            /\ messages' = messages]_vars

\* C10: a create with a valid type whose content is the empty string or only
\* whitespace fails with status 400 and stores no row.
C10_BlankContentIs400 ==
    [][(/\ request'.op = "create" /\ clock' = clock
        /\ request'.body.kind = "object"
        /\ request'.body.hasContent /\ request'.body.hasType
        /\ request'.body.type.kind = "string" /\ request'.body.type.s \in VALID_TYPES
        /\ request'.body.content.kind = "string"
        /\ \A i \in 1..Len(request'.body.content.s) :
             request'.body.content.s[i] \in Whitespace)
         => /\ response'.kind = "error"
            /\ response'.status = 400
            /\ messages' = messages]_vars

C10_Witness ==
    /\ request.op = "create"
    /\ request.body.type = [kind |-> "string", s |-> "decision"]
    /\ request.body.content.s = <<" ">>
    /\ response.status = 400
    /\ Cardinality(messages) = 2

\* C11: every request that fails, in any handler and for any cause, is
\* answered with a JSON body holding an error string and status 400, 404 or
\* 500; no failure is left without a JSON error body.
C11_FailuresAreJsonErrors ==
    request.op # "none" =>
        \/ response.kind \in {"messages", "created", "deleted", "cleared"}
        \/ /\ response.kind = "error"
           /\ response.status \in {400, 404, 500}
           /\ response.error # ""

\* the route table of the service
InRouteTable(method, path) ==
    \/ method = "OPTIONS"
    \/ method \in {"GET", "POST", "DELETE"} /\ path = [prefix |-> "/messages", tail |-> <<>>]
    \/ /\ method = "DELETE"
       /\ path.prefix = "/messages"
       /\ \E n \in 0..TooLargeId, zeros \in 0..1 :
            path.tail = <<"/">> \o [i \in 1..zeros |-> "0"] \o Numeral(n)

\* C13: every (method, path) outside the route table is answered with status
\* 404 and a JSON error envelope, also for methods other than GET, POST,
\* DELETE and OPTIONS and for DELETE /messages/abc or /messages/-1.  (GET on /
\* and /static/ is the static delivery, left aside here.)
C13_UnroutedIs404 ==
    (/\ routed.method # ""
     /\ ~InRouteTable(routed.method, routed.path)
     /\ ~(routed.method = "GET" /\ routed.path.prefix \in {"/", "/static/"}))
      => /\ response.kind = "error"
         /\ response.status = 404
         /\ response.error # ""

\* C12: the count reported by clear is the number of rows this clear
\* removed, also when a create or delete-one of another run comes between its
\* statements.
C12_ClearCountIsRemoved ==
    \A s \in Slots :
        (handlers[s].pc = "done" /\ handlers[s].resp.kind = "cleared")
          => handlers[s].resp.count = handlers[s].removed

\* C14: a create answered with a status other than 201 has added no row:
\* whichever step fails, the table is as it was before the request.
C14_FailedCreateAddsNothing ==
    [][\A s \in Slots :
         (/\ handlers[s].pc # "done" /\ handlers'[s].pc = "done"
          /\ handlers[s].req.op = "create"
          /\ handlers'[s].resp.status # 201)
           => messages' = handlers[s].before]_vars

\* C15: of two delete-one runs for the same existing id that overlap, one
\* answers 200 and the other 404: a delete answers 200 only if it removed the
\* row itself.
C15_DeleteSuccessRemovedRow ==
    \A s \in Slots :
        (handlers[s].pc = "done" /\ handlers[s].resp.kind = "deleted")
          => handlers[s].removed = 1

\* C20: within one server process requests are handled one at a time: the
\* store statements of a handler are never interleaved with those of another
\* request.
C20_OneRequestAtATime ==
    [][\A s, t \in Slots :
         (s # t /\ Running(handlers[s]) /\ handlers'[s] # handlers[s])
           => ~Running(handlers[t]) /\ ~Running(handlers'[t])]_vars

C20_Witness ==
    \E s, t \in Slots :
        /\ handlers[s].pc = "delete"
        /\ handlers[t].pc = "pending"
        /\ handlers[t].req.op = "clear"

\* C19: with a clock that never goes back, the ids of the stored rows are in
\* the order of their timestamps: a row with the smaller id has a timestamp no
\* later than that of a row with the larger id.
C19_IdOrderIsTimeOrder ==
    \A a, b \in messages : a.id < b.id => a.timestamp <= b.timestamp

C19_Witness ==
    /\ deletedIds # {}
    /\ \E a, b \in messages : a.id < b.id /\ a.timestamp < b.timestamp

\* C16: every stored row has a type of the valid set and a content that is
\* not empty after trimming, and the content stored by a create is the
\* submitted content as it was sent, untrimmed.
C16_StoredRowsValidAndUntrimmed ==
    [][/\ \A m \in messages' :
            /\ m.type \in VALID_TYPES
            /\ \E i \in 1..Len(m.content) : m.content[i] \notin Whitespace
       /\ (request'.op = "create" /\ clock' = clock /\ response'.status = 201)
            => /\ response'.message.content = request'.body.content.s
               /\ \E m \in messages' \ messages :
                    m.content = request'.body.content.s]_vars

C16_Witness ==
    /\ request.op = "create"
    /\ response.status = 201
    /\ request.body.content.s = <<" ", "a", " ">>
    /\ \E m \in messages : m.id = response.message.id /\ m.content = <<" ", "a", " ">>

\* C18: the checks of a create are applied in a fixed order and the first
\* that fails decides the response: a body that is not a JSON object fails
\* with 400 (a body that is not JSON, and also a JSON number, string, list or
\* null: 400 and not 500), then a missing content key fails with 400 naming
\* content, then a missing type key with 400 naming type, then the type not
\* in the valid set, then the empty content.
C18_CreateChecksInOrder ==
    [][(/\ request'.op = "create" /\ clock' = clock
        /\ request'.body.kind \notin {"empty", "undecodable"})
         => LET body == request'.body
                blank == \/ ~body.content.truthy
                         \/ /\ body.content.kind = "string"
                            /\ \A i \in 1..Len(body.content.s) :
                                 body.content.s[i] \in Whitespace
            IN IF body.kind = "badjson"
                 THEN response' = send_error_response("Invalid JSON in request body", 400)
               ELSE IF body.kind # "object"
                 THEN response'.kind = "error" /\ response'.status = 400
               ELSE IF ~body.hasContent
                 THEN response' = send_error_response("'content' field is required", 400)
               ELSE IF ~body.hasType
                 THEN response' = send_error_response("'type' field is required", 400)
               ELSE IF ~(body.type.kind = "string" /\ body.type.s \in VALID_TYPES)
                 THEN response' = send_error_response("'type' must be one of: VALID_TYPES", 400)
               ELSE blank => response' = send_error_response("'content' cannot be empty", 400)]_vars

\* C17: no operation changes the id, content, type or timestamp of a row
\* that stays in the store: a create only adds one row, delete-one and clear
\* only remove rows, and list, OPTIONS and every rejected request leave the
\* table as it was.
C17_RowsImmutable ==
    [][/\ \A m \in messages, n \in messages' : m.id = n.id => m = n
       /\ clock' = clock =>
            /\ IF request'.op = "create" /\ response'.status = 201
                 THEN messages \subseteq messages' /\ Cardinality(messages' \ messages) = 1
               ELSE IF request'.op \in {"delete", "clear"}
                 THEN messages' \subseteq messages
               ELSE messages' = messages
            /\ response'.status \in {400, 404, 501} => messages' = messages]_vars

C17_Witness ==
    /\ routed.method = "DELETE"
    /\ request.op = "delete"
    /\ response.status = 200
    /\ \E m \in messages : m.id > request.id /\ m.content = <<" ", "a", " ">>

====
